---------------------------- MODULE Spec2Model ----------------------------
(***************************************************************************)
(* Model of src/script.py, the Windows 11 compatibility checker.           *)
(*                                                                         *)
(* The main flow is a sequential program (pc) running beside one daemon    *)
(* thread, the loader animation (loader).  Python strings are sequences of *)
(* one-character strings, so that substring tests, lower() and title() are *)
(* computed and not assumed.  A byte count is the pair gib * 2^30 + rem,   *)
(* which keeps every intermediate value inside TLC's 32-bit integers.      *)
(***************************************************************************)
EXTENDS Integers, Sequences, FiniteSets, TLC

----------------------------------------------------------------------------
(* Bounds of the model *)

\* psutil.cpu_count / NumberOfCores answers None or 1..MaxCores
MaxCores == 2
\* lines printed by simulacao_dir before its five seconds are over
MaxDirLines == 1
\* iterations of the idle loop "while True: time.sleep(1)" that are told apart
MaxTicks == 1

----------------------------------------------------------------------------
(* Program constants *)

\* range(1, 6) of the scan loop
ScanSteps == 5
\* len(logo) in animacao_logo_final
LogoRows == 7
\* thresholds of build_report
MinRamGb == 4
MinCores == 2
MinDiskGb == 64

GiB == 1024 * 1024 * 1024
HalfGiB == 512 * 1024 * 1024
Chunk == 32 * 1024

----------------------------------------------------------------------------
(* Python strings as sequences of characters *)

S_Ativado == <<"A","t","i","v","a","d","o">>
S_Desativado == <<"D","e","s","a","t","i","v","a","d","o">>
S_Desconhecido == <<"D","e","s","c","o","n","h","e","c","i","d","o">>
S_Presente == <<"P","r","e","s","e","n","t","e">>
S_Ausente == <<"A","u","s","e","n","t","e">>
S_UEFI == <<"U","E","F","I">>
S_uefi == <<"u","e","f","i">>
S_BIOS == <<"B","I","O","S">>
S_bios == <<"b","i","o","s">>
S_LegacyBIOS == <<"L","e","g","a","c","y","/","B","I","O","S">>
S_Indisponivel == <<"I","n","d","i","s","p","o","n","i","v","e","l">>
S_true == <<"t","r","u","e">>
S_false == <<"f","a","l","s","e">>
S_True == <<"T","r","u","e">>
S_False == <<"F","a","l","s","e">>
S_TRUE == <<"T","R","U","E">>
S_1 == <<"1">>
S_2 == <<"2">>
S_64 == <<"6","4">>
S_64bit == <<"6","4","b","i","t">>
S_32bit == <<"3","2","b","i","t">>
S_20 == <<"2",".","0">>
S_12 == <<"1",".","2">>
S_Full20 == <<"F","u","l","l","2","0">>
S_ManufVer == <<"7",".","2">>
S_Empty == << >>
S_ErrText == <<"e","r","r">>

Uppers == <<"A","B","C","D","E","F","G","H","I","J","K","L","M","N","O","P","Q","R","S","T","U","V","W","X","Y","Z">>
Lowers == <<"a","b","c","d","e","f","g","h","i","j","k","l","m","n","o","p","q","r","s","t","u","v","w","x","y","z">>

IsUpper(c) == \E i \in 1..Len(Uppers) : Uppers[i] = c
IsLower(c) == \E i \in 1..Len(Lowers) : Lowers[i] = c
IsCased(c) == IsUpper(c) \/ IsLower(c)

\* str.lower() on one character
LowerChar(c) ==
    IF IsUpper(c) THEN Lowers[CHOOSE i \in 1..Len(Uppers) : Uppers[i] = c] ELSE c

\* str.upper() on one character
UpperChar(c) ==
    IF IsLower(c) THEN Uppers[CHOOSE i \in 1..Len(Lowers) : Lowers[i] = c] ELSE c

\* s.lower()
Lower(s) == [i \in 1..Len(s) |-> LowerChar(s[i])]

\* s.title(): a cased character is upper-cased after an uncased one (or at the
\* start) and lower-cased after a cased one
Title(s) ==
    [i \in 1..Len(s) |->
        IF i = 1 \/ ~IsCased(s[i - 1]) THEN UpperChar(s[i]) ELSE LowerChar(s[i])]

\* Python's "sub in s" on strings: case-sensitive substring test
Contains(sub, s) ==
    \E k \in 0..(Len(s) - Len(sub)) : \A i \in 1..Len(sub) : s[k + i] = sub[i]

\* s.strip(): the model's strings carry no surrounding whitespace or NULs
Strip(s) == s

----------------------------------------------------------------------------
(* Python values: None, int, float (in hundredths), str *)

None == [t |-> "none"]
PyInt(n) == [t |-> "int", v |-> n]
\* a float with two decimals, held as its number of hundredths
PyFloat(h) == [t |-> "float", h |-> h]
PyStr(s) == [t |-> "str", s |-> s]

IsNumber(x) == x.t \in {"int", "float"}

\* "x >= n" raises TypeError unless x is a number
GeRaises(x) == ~IsNumber(x)

\* the value of "x >= n" for a number x and an int literal n
Ge(x, n) ==
    CASE x.t = "int" -> x.v >= n
      [] x.t = "float" -> x.h >= n * 100
      [] OTHER -> FALSE

----------------------------------------------------------------------------
(* bytes_to_gb *)

\* a byte count gib * 2^30 + rem
Bytes(g, r) == [t |-> "bytes", gib |-> g, rem |-> r]

\* floor and remainder of rem * 100 / 2^30, computed in 2^15 chunks
ScaledHi(r) == ((r \div Chunk) * 100) + (((r % Chunk) * 100) \div Chunk)
ScaledQuot(r) == ScaledHi(r) \div Chunk
ScaledRest(r) == ((ScaledHi(r) % Chunk) * Chunk) + (((r % Chunk) * 100) % Chunk)

\* round(x, 2) on the fraction rem / 2^30: hundredths, ties to even
RoundHundredths(r) ==
    LET q == ScaledQuot(r)
        rest == ScaledRest(r)
    IN  IF rest > HalfGiB THEN q + 1
        ELSE IF rest = HalfGiB THEN q + (q % 2)
        ELSE q

\* round(b / (1024 ** 3), 2), None when the division raises
bytes_to_gb(b) ==
    IF b.t = "bytes" THEN PyFloat(b.gib * 100 + RoundHundredths(b.rem)) ELSE None


----------------------------------------------------------------------------
(* JSON payload of Get-Tpm, and truthiness *)

Absent == [t |-> "absent"]
PyBool(b) == [t |-> "bool", b |-> b]
Unset == [t |-> "unset"]

\* bool(x); the text of a JSON document is a non-empty string
Truthy(x) ==
    CASE x.t = "bool" -> x.b
      [] x.t = "str" -> Len(x.s) > 0
      [] x.t = "int" -> x.v # 0
      [] x.t = "float" -> x.h # 0
      [] x.t = "json" -> TRUE
      [] OTHER -> FALSE

\* j.get(k, default)
Get(j, k, default) == IF j[k].t = "absent" THEN default ELSE j[k]

\* (j.get(k) or "")
GetOrEmpty(j, k) ==
    LET x == Get(j, k, None) IN IF Truthy(x) THEN x ELSE PyStr(S_Empty)

\* x or y or z on strings: the first non-empty one
FirstNonEmpty(x, y) == IF Len(x) > 0 THEN x ELSE y

\* "Full20" in out: the text of a JSON object holds its key names and its
\* string values
Full20InOut(j) ==
    \/ j.ManufacturerVersionFull20.t # "absent"
    \/ \E k \in DOMAIN j : j[k].t = "str" /\ Contains(S_Full20, j[k].s)

----------------------------------------------------------------------------
(* safe_run *)

\* what the external command did: kind is "ok" (exit status 0), "nonzero" or
\* "timeout" (subprocess.run raised)
Cmd(kind, stdout) == [kind |-> kind, stdout |-> stdout, stderr |-> PyStr(S_ErrText)]

\* safe_run without the test of the exit status
safe_run_ignores_status(c) ==
    IF c.kind = "timeout" THEN [ok |-> FALSE, out |-> PyStr(S_ErrText)]
    ELSE [ok |-> TRUE, out |-> c.stdout]

\* (True, out) on exit status 0, (False, out or err) otherwise, (False, str(e))
\* when subprocess.run raises
safe_run(c) ==
    CASE c.kind = "ok" -> [ok |-> TRUE, out |-> c.stdout]
      [] c.kind = "nonzero" ->
            [ok |-> FALSE, out |-> IF Truthy(c.stdout) THEN c.stdout ELSE c.stderr]
      [] OTHER -> [ok |-> FALSE, out |-> PyStr(S_ErrText)]

CmdFailed(c) == c.kind \in {"nonzero", "timeout"}

----------------------------------------------------------------------------
(* get_tpm_info *)

TpmUnknown(out) ==
    [status |-> S_Desconhecido, enabled |-> S_Desconhecido, version |-> S_Desconhecido,
     manufacturer |-> S_Desconhecido, is_tpm20 |-> FALSE, raw |-> out]

\* the label when only TpmEnabled is consulted and TpmReady is ignored
EnabledLabelNoReady(j) ==
    IF Truthy(Get(j, "TpmEnabled", PyBool(FALSE))) THEN S_Ativado ELSE S_Desativado

\* "Ativado" if tpm_enabled or tpm_ready else "Desativado"
EnabledLabel(j) ==
    IF Truthy(Get(j, "TpmEnabled", PyBool(FALSE))) \/ Truthy(Get(j, "TpmReady", PyBool(FALSE)))
    THEN S_Ativado ELSE S_Desativado

\* the dictionary built from a parsed JSON object
TpmFromJson(j) ==
    LET spec_ver == Strip(GetOrEmpty(j, "SpecVersion").s)
        manuf_ver == Strip(GetOrEmpty(j, "ManufacturerVersionFull20").s)
        manuf == Strip(GetOrEmpty(j, "ManufacturerIdTxt").s)
    IN  [status |-> IF Truthy(Get(j, "TpmPresent", PyBool(FALSE))) THEN S_Presente ELSE S_Ausente,
         enabled |-> EnabledLabel(j),
         version |-> FirstNonEmpty(manuf_ver, FirstNonEmpty(spec_ver, S_Desconhecido)),
         manufacturer |-> FirstNonEmpty(manuf, S_Desconhecido),
         is_tpm20 |-> (Len(manuf_ver) > 0 \/ Full20InOut(j) \/ Contains(S_20, spec_ver)),
         raw |-> [t |-> "json", j |-> j]]

\* json.loads and the .get / .strip calls succeed only on a JSON object whose
\* version fields are strings or null
ParsesToDict(out) ==
    /\ out.t = "json"
    /\ \A k \in {"SpecVersion", "ManufacturerVersionFull20", "ManufacturerIdTxt"} :
          GetOrEmpty(out.j, k).t = "str"

get_tpm_info(c) ==
    LET r == safe_run(c)
    IN  IF r.ok /\ Truthy(r.out) /\ ParsesToDict(r.out) THEN TpmFromJson(r.out.j)
        ELSE TpmUnknown(r.out)

----------------------------------------------------------------------------
(* get_secure_boot_status *)

get_secure_boot_status(c) ==
    LET r == safe_run(c)
    IN  IF r.ok /\ r.out.t = "str" /\ Lower(r.out.s) \in {S_true, S_false}
        THEN Title(r.out.s)
        ELSE S_Indisponivel

----------------------------------------------------------------------------
(* get_firmware_type *)

SaysUefi(r) == r.ok /\ Strip(r.out.s) \in {S_2, S_UEFI, S_uefi}
SaysBios(r) == r.ok /\ Strip(r.out.s) \in {S_1, S_BIOS, S_bios}

\* CIM query, then WMI query, then the EFI directories
get_firmware_type(c1, c2, efi) ==
    LET r1 == safe_run(c1)
        r2 == safe_run(c2)
    IN  IF SaysUefi(r1) THEN S_UEFI
        ELSE IF SaysBios(r1) THEN S_LegacyBIOS
        ELSE IF SaysUefi(r2) THEN S_UEFI
        ELSE IF SaysBios(r2) THEN S_LegacyBIOS
        ELSE IF efi THEN S_UEFI
        ELSE S_Desconhecido

----------------------------------------------------------------------------
(* build_report: the checks and the summary *)

\* the dictionary with its first two keys swapped
CheckOrderCpuFirst == <<"CPU", "RAM", "Disco", "TPM", "Firmware", "SecureBoot", "Arquitetura">>

\* the keys of the checks dictionary, in insertion order
CheckOrder == <<"RAM", "CPU", "Disco", "TPM", "Firmware", "SecureBoot", "Arquitetura">>

\* tpm["is_tpm20"] and "Ativado" in tpm["enabled"]
TpmCheck(tpm) == tpm.is_tpm20 /\ Contains(S_Ativado, tpm.enabled)

\* evaluating the dictionary raises TypeError when ram_gb or cpu_cores is no number
ChecksRaise(f) == GeRaises(f.ram_gb) \/ GeRaises(f.cpu_cores)

CheckValue(f, k) ==
    CASE k = "RAM" -> Ge(f.ram_gb, MinRamGb)
      [] k = "CPU" -> Ge(f.cpu_cores, MinCores)
      [] k = "Disco" -> IsNumber(f.disk_total) /\ Ge(f.disk_total, MinDiskGb)
      [] k = "TPM" -> TpmCheck(f.tpm)
      [] k = "Firmware" -> Contains(S_UEFI, f.firmware.s)
      [] k = "SecureBoot" -> Lower(f.secure_boot.s) = S_true
      [] k = "Arquitetura" -> Contains(S_64, f.arch.s)

\* checks = {...}: an insertion-ordered dictionary, as a sequence of items
Checks(f) == [i \in 1..Len(CheckOrder) |-> [k |-> CheckOrder[i], ok |-> CheckValue(f, CheckOrder[i])]]

\* all(checks.values())
AllOk(checks) == \A i \in 1..Len(checks) : checks[i].ok

RECURSIVE KeysWhere(_, _)
KeysWhere(checks, wanted) ==
    IF checks = << >> THEN << >>
    ELSE IF Head(checks).ok = wanted
         THEN <<Head(checks).k>> \o KeysWhere(Tail(checks), wanted)
         ELSE KeysWhere(Tail(checks), wanted)

\* faltando = [k for k, ok in checks.items() if not ok]
Faltando(checks) == KeysWhere(checks, FALSE)

\* the "Resumo Geral" lines of the report
Summary(checks) ==
    IF AllOk(checks) THEN [fully |-> TRUE, items |-> << >>]
    ELSE [fully |-> FALSE, items |-> Faltando(checks)]

----------------------------------------------------------------------------
(* Inputs: what the host answers *)

\* psutil.virtual_memory().total
RamTotals == {Bytes(3, 1068373114), Bytes(3, GiB - 1), Bytes(4, 0)}

\* psutil.disk_usage("C:\\").total
DiskTotals == {Bytes(63, 0), Bytes(64, 0)}

\* NumberOfCores / psutil.cpu_count(logical=False)
CoreCounts == {None} \cup {PyInt(n) : n \in 1..MaxCores}

\* platform.architecture()[0]
Archs == {S_64bit, S_32bit}

TpmFlags ==
    {<<TRUE, TRUE, TRUE>>, <<TRUE, TRUE, FALSE>>, <<TRUE, FALSE, TRUE>>,
     <<TRUE, FALSE, FALSE>>, <<FALSE, FALSE, FALSE>>}

\* <<SpecVersion, ManufacturerVersionFull20>>
TpmVersions ==
    {<<PyStr(S_20), Absent>>, <<PyStr(S_12), Absent>>, <<None, PyStr(S_ManufVer)>>}

TpmJson(fl, ver) ==
    [t |-> "json",
     j |-> [TpmPresent |-> PyBool(fl[1]), TpmEnabled |-> PyBool(fl[2]),
            TpmReady |-> PyBool(fl[3]), SpecVersion |-> ver[1],
            ManufacturerVersionFull20 |-> ver[2], ManufacturerIdTxt |-> Absent]]

\* a JSON object whose SpecVersion is a number: .strip raises on it
TpmJsonBadType ==
    [t |-> "json",
     j |-> [TpmPresent |-> PyBool(TRUE), TpmEnabled |-> PyBool(TRUE),
            TpmReady |-> PyBool(TRUE), SpecVersion |-> PyInt(2),
            ManufacturerVersionFull20 |-> Absent, ManufacturerIdTxt |-> Absent]]

\* outcomes of 'powershell -Command "Get-Tpm | ConvertTo-Json -Depth 4"'
TpmCmds ==
    {Cmd("ok", TpmJson(fl, ver)) : fl \in TpmFlags, ver \in TpmVersions}
    \cup {Cmd("ok", PyStr(S_Empty)), Cmd("ok", TpmJsonBadType),
          Cmd("nonzero", TpmJson(<<TRUE, TRUE, TRUE>>, <<PyStr(S_20), Absent>>)),
          Cmd("timeout", PyStr(S_Empty))}

\* outcomes of 'powershell -Command "Confirm-SecureBootUEFI"'
SecureBootCmds ==
    {Cmd("ok", PyStr(S_True)), Cmd("ok", PyStr(S_False)), Cmd("ok", PyStr(S_TRUE)),
     Cmd("ok", PyStr(S_Empty)), Cmd("nonzero", PyStr(S_True)),
     Cmd("nonzero", PyStr(S_Empty)), Cmd("timeout", PyStr(S_Empty))}

\* outcomes of the SystemFirmwareType queries
FirmwareCmds ==
    {Cmd("ok", PyStr(S_2)), Cmd("ok", PyStr(S_1)), Cmd("ok", PyStr(S_Empty)),
     Cmd("nonzero", PyStr(S_2)), Cmd("nonzero", PyStr(S_Empty)),
     Cmd("timeout", PyStr(S_Empty))}

----------------------------------------------------------------------------
(* State *)

VARIABLES
    elevated,        \* whether the process holds administrative privileges
    pc,              \* position of the main flow
    stop_animation,  \* the global flag polled by the loader thread
    loader,          \* loader thread: "none", "test", "body", "done", "killed"
    scan_i,          \* i of the scan loop
    dir_lines,       \* lines printed so far by simulacao_dir
    logo_i,          \* i of the loop of animacao_logo_final
    ticks,           \* iterations of the idle loop, up to MaxTicks
    relaunch,        \* whether ShellExecuteW(..., "runas", ...) was called
    probes_run,      \* number of get_* calls started by build_report
    loc,             \* the local variables of build_report
    env,             \* what the host answered to the probes of this build_report call
    report,          \* the summary of the report returned by build_report
    file,            \* the report file <hostname>.txt
    printed,         \* which messages of the top-level handlers were printed
    answer,          \* what input() did: "none", "enter" or "eof"
    exit_status,     \* exit status of the process, -1 while it runs
    interrupted      \* whether a KeyboardInterrupt was delivered to the main flow

vars == <<elevated, pc, stop_animation, loader, scan_i, dir_lines, logo_i, ticks,
          relaunch, probes_run, loc, env, report, file, printed, answer,
          exit_status, interrupted>>

NoLocals ==
    [cpu_cores |-> Unset, ram_gb |-> Unset, disk_total |-> Unset, tpm |-> Unset,
     secure_boot |-> Unset, firmware |-> Unset, arch |-> Unset, checks |-> << >>,
     summary |-> Unset]

NoEnv ==
    [ram_total |-> Unset, tpm_failed |-> Unset, sb_failed |-> Unset,
     fw_failed |-> Unset, efi_dirs |-> Unset]

Init ==
    /\ elevated \in BOOLEAN
    /\ pc = "is_admin"
    /\ stop_animation = FALSE
    /\ loader = "none"
    /\ scan_i = 1
    /\ dir_lines = 0
    /\ logo_i = 0
    /\ ticks = 0
    /\ relaunch = FALSE
    /\ probes_run = 0
    /\ loc = NoLocals
    /\ env = NoEnv
    /\ report = Unset
    /\ file = Unset
    /\ printed = [notice |-> FALSE, fatal |-> FALSE, generated |-> FALSE,
                  uncaught |-> FALSE]
    /\ answer = "none"
    /\ exit_status = -1
    /\ interrupted = FALSE

----------------------------------------------------------------------------
(* Privilege elevation, lines 29-38 *)

\* is_admin answering True when the call raises
is_admin_trusts_failure(priv, raises) == IF raises THEN TRUE ELSE priv

\* IsUserAnAdmin(), False when the call raises
is_admin(priv, raises) == IF raises THEN FALSE ELSE priv

CheckAdmin ==
    /\ pc = "is_admin"
    /\ \E raises \in BOOLEAN :
          pc' = IF is_admin(elevated, raises) THEN "spawn" ELSE "elevate"
    /\ UNCHANGED <<elevated, stop_animation, loader, scan_i, dir_lines, logo_i, ticks,
                   relaunch, probes_run, loc, env, report, file, printed, answer, exit_status,
                   interrupted>>

\* ShellExecuteW(None, "runas", ...) then sys.exit(); an exception of the call
\* is uncaught and ends the process with a traceback
Elevate ==
    /\ pc = "elevate"
    /\ relaunch' = TRUE
    /\ \E raises \in BOOLEAN :
          /\ exit_status' = IF raises THEN 1 ELSE 0
          /\ printed' = [printed EXCEPT !.uncaught = raises]
    /\ pc' = "exited"
    /\ UNCHANGED <<elevated, stop_animation, loader, scan_i, dir_lines, logo_i, ticks,
                   probes_run, loc, env, report, file, answer, interrupted>>

----------------------------------------------------------------------------
(* The loader thread, animacao_carregamento *)

\* a loop test that does not read the flag
LoaderTestIgnoresFlag == /\ loader = "test" /\ loader' = "body"

\* while not stop_animation
LoaderTestFlag ==
    /\ loader = "test"
    /\ loader' = IF stop_animation THEN "done" ELSE "body"

LoaderTest ==
    /\ LoaderTestFlag
    /\ UNCHANGED <<elevated, pc, stop_animation, scan_i, dir_lines, logo_i, ticks,
                   relaunch, probes_run, loc, env, report, file, printed, answer, exit_status,
                   interrupted>>

\* one line of random characters, then time.sleep(0.05)
LoaderBody ==
    /\ loader = "body"
    /\ loader' = "test"
    /\ UNCHANGED <<elevated, pc, stop_animation, scan_i, dir_lines, logo_i, ticks,
                   relaunch, probes_run, loc, env, report, file, printed, answer, exit_status,
                   interrupted>>

----------------------------------------------------------------------------
(* The main flow up to build_report, lines 316-336 *)

\* stop_animation = False; loader_thread.start()
Spawn ==
    /\ pc = "spawn"
    /\ stop_animation' = FALSE
    /\ loader' = "test"
    /\ pc' = "scan"
    /\ UNCHANGED <<elevated, scan_i, dir_lines, logo_i, ticks, relaunch, probes_run,
                   loc, env, report, file, printed, answer, exit_status, interrupted>>

\* one turn of "for i in range(1, 6)"
ScanStep ==
    /\ pc = "scan"
    /\ scan_i <= ScanSteps
    /\ scan_i' = scan_i + 1
    /\ UNCHANGED <<elevated, pc, stop_animation, loader, dir_lines, logo_i, ticks,
                   relaunch, probes_run, loc, env, report, file, printed, answer, exit_status,
                   interrupted>>

\* the last sleep and the three lines after the loop
ScanEnd ==
    /\ pc = "scan"
    /\ scan_i > ScanSteps
    /\ pc' = "set_stop"
    /\ UNCHANGED <<elevated, stop_animation, loader, scan_i, dir_lines, logo_i, ticks,
                   relaunch, probes_run, loc, env, report, file, printed, answer, exit_status,
                   interrupted>>

\* stop_animation = True
SetStop ==
    /\ pc = "set_stop"
    /\ stop_animation' = TRUE
    /\ pc' = "join"
    /\ UNCHANGED <<elevated, loader, scan_i, dir_lines, logo_i, ticks, relaunch,
                   probes_run, loc, env, report, file, printed, answer, exit_status,
                   interrupted>>

\* loader_thread.join(timeout=1) returns when the thread has ended or the second
\* is over, whichever is first
Join ==
    /\ pc = "join"
    /\ pc' = "simdir"
    /\ UNCHANGED <<elevated, stop_animation, loader, scan_i, dir_lines, logo_i, ticks,
                   relaunch, probes_run, loc, env, report, file, printed, answer, exit_status,
                   interrupted>>

\* one line of the fake directory listing
SimDirLine ==
    /\ pc = "simdir"
    /\ dir_lines < MaxDirLines
    /\ dir_lines' = dir_lines + 1
    /\ UNCHANGED <<elevated, pc, stop_animation, loader, scan_i, logo_i, ticks,
                   relaunch, probes_run, loc, env, report, file, printed, answer, exit_status,
                   interrupted>>

\* the five seconds are over and simulacao_dir returns; build_report is entered
SimDirEnd ==
    /\ pc = "simdir"
    /\ dir_lines' = 0
    /\ pc' = "get_hostname"
    /\ UNCHANGED <<elevated, stop_animation, loader, scan_i, logo_i, ticks,
                   relaunch, probes_run, loc, env, report, file, printed, answer, exit_status,
                   interrupted>>

----------------------------------------------------------------------------
(* build_report: the probes, lines 171-181 *)

\* what a step of build_report leaves alone
outside == <<elevated, stop_animation, loader, scan_i, dir_lines, logo_i, ticks,
             relaunch, report, file, printed, answer, exit_status>>

\* a probe at position here runs and the flow moves on to next
Probe(here, next) ==
    /\ pc = here
    /\ pc' = next
    /\ probes_run' = probes_run + 1
    /\ UNCHANGED outside

\* socket.gethostname()
GetHostname ==
    /\ Probe("get_hostname", "get_current_user")
    /\ UNCHANGED <<loc, env, interrupted>>

\* getpass.getuser() under a bare except: an interrupt raised inside it is
\* caught there and the flow goes on
GetCurrentUser ==
    /\ Probe("get_current_user", "get_os_info")
    /\ \E swallowed \in BOOLEAN : interrupted' = (interrupted \/ swallowed)
    /\ UNCHANGED <<loc, env>>

GetOsInfo ==
    /\ Probe("get_os_info", "get_manufacturer_model")
    /\ \E a \in Archs : loc' = [loc EXCEPT !.arch = PyStr(a)]
    /\ UNCHANGED <<env, interrupted>>

\* WMI query under a bare except
GetManufacturerModel ==
    /\ Probe("get_manufacturer_model", "get_cpu_info")
    /\ \E swallowed \in BOOLEAN : interrupted' = (interrupted \/ swallowed)
    /\ UNCHANGED <<loc, env>>

\* NumberOfCores from WMI or, when WMI is absent or raises (a swallowed
\* interrupt included), psutil.cpu_count(logical=False)
GetCpuInfo ==
    /\ Probe("get_cpu_info", "get_ram_gb")
    /\ \E cores \in CoreCounts : loc' = [loc EXCEPT !.cpu_cores = cores]
    /\ \E swallowed \in BOOLEAN : interrupted' = (interrupted \/ swallowed)
    /\ UNCHANGED env

GetRamGb ==
    /\ Probe("get_ram_gb", "get_disk_info")
    /\ \E total \in RamTotals :
          /\ loc' = [loc EXCEPT !.ram_gb = bytes_to_gb(total)]
          /\ env' = [env EXCEPT !.ram_total = total]
    /\ UNCHANGED interrupted

\* psutil.disk_usage under a bare except: "Desconhecido" when it raises
GetDiskInfo ==
    /\ Probe("get_disk_info", "get_gpu_names")
    /\ \/ /\ \E total \in DiskTotals : loc' = [loc EXCEPT !.disk_total = bytes_to_gb(total)]
          /\ UNCHANGED interrupted
       \/ /\ loc' = [loc EXCEPT !.disk_total = PyStr(S_Desconhecido)]
          /\ \E swallowed \in BOOLEAN : interrupted' = (interrupted \/ swallowed)
    /\ UNCHANGED env

\* WMI query under a bare except
GetGpuNames ==
    /\ Probe("get_gpu_names", "get_tpm_info")
    /\ \E swallowed \in BOOLEAN : interrupted' = (interrupted \/ swallowed)
    /\ UNCHANGED <<loc, env>>

GetTpmInfo ==
    /\ Probe("get_tpm_info", "get_secure_boot_status")
    /\ \E c \in TpmCmds :
          /\ loc' = [loc EXCEPT !.tpm = get_tpm_info(c)]
          /\ env' = [env EXCEPT !.tpm_failed = PyBool(CmdFailed(c))]
    /\ UNCHANGED interrupted

GetSecureBootStatus ==
    /\ Probe("get_secure_boot_status", "get_firmware_type")
    /\ \E c \in SecureBootCmds :
          /\ loc' = [loc EXCEPT !.secure_boot = PyStr(get_secure_boot_status(c))]
          /\ env' = [env EXCEPT !.sb_failed = PyBool(CmdFailed(c))]
    /\ UNCHANGED interrupted

\* the second query is issued only when the first one decides nothing, the
\* directories are looked at only when the second one decides nothing
GetFirmwareType ==
    /\ Probe("get_firmware_type", "checks")
    /\ \E c1 \in FirmwareCmds, c2 \in FirmwareCmds, efi \in BOOLEAN :
          LET undecided1 == ~SaysUefi(safe_run(c1)) /\ ~SaysBios(safe_run(c1))
              undecided2 == undecided1 /\ ~SaysUefi(safe_run(c2)) /\ ~SaysBios(safe_run(c2))
          IN  /\ loc' = [loc EXCEPT !.firmware = PyStr(get_firmware_type(c1, c2, efi))]
              /\ env' = [env EXCEPT
                           !.fw_failed = PyBool(CmdFailed(c1) /\ (undecided1 => CmdFailed(c2))),
                           !.efi_dirs = IF undecided2 THEN PyBool(efi) ELSE Unset]
    /\ UNCHANGED interrupted

----------------------------------------------------------------------------
(* build_report: checks, summary and return, lines 183-229 and 339 *)

\* the checks dictionary raises TypeError: the frame is left, the handler of
\* the main flow is entered
ChecksFail ==
    /\ pc = "checks"
    /\ ChecksRaise(loc)
    /\ pc' = "h_exc"
    /\ loc' = NoLocals
    /\ env' = NoEnv
    /\ UNCHANGED <<probes_run, interrupted>>
    /\ UNCHANGED outside

\* checks, fully_compatible, the lines of the report and faltando
Evaluate ==
    /\ pc = "checks"
    /\ ~ChecksRaise(loc)
    /\ loc' = [loc EXCEPT !.checks = Checks(loc), !.summary = Summary(Checks(loc))]
    /\ pc' = "return"
    /\ UNCHANGED <<probes_run, env, interrupted>>
    /\ UNCHANGED outside

\* return "\n".join(lines), host
ReturnReport ==
    /\ pc = "return"
    /\ report' = loc.summary
    /\ loc' = NoLocals
    /\ env' = NoEnv
    /\ pc' = "write"
    /\ UNCHANGED <<elevated, stop_animation, loader, scan_i, dir_lines, logo_i, ticks,
                   relaunch, probes_run, file, printed, answer, exit_status, interrupted>>

----------------------------------------------------------------------------
(* The main flow after build_report, lines 340-351 *)

\* write_output_file: the file is written, or open/write raises OSError
WriteFile ==
    /\ pc = "write"
    /\ \/ /\ file' = report
          /\ printed' = [printed EXCEPT !.generated = TRUE]
          /\ pc' = "logo"
       \/ /\ pc' = "h_exc"
          /\ UNCHANGED <<file, printed>>
    /\ UNCHANGED <<elevated, stop_animation, loader, scan_i, dir_lines, logo_i, ticks,
                   relaunch, probes_run, loc, env, report, answer, exit_status,
                   interrupted>>

\* one turn of "for i in range(len(logo))"
LogoRow ==
    /\ pc = "logo"
    /\ logo_i < LogoRows
    /\ logo_i' = logo_i + 1
    /\ UNCHANGED <<elevated, pc, stop_animation, loader, scan_i, dir_lines, ticks,
                   relaunch, probes_run, loc, env, report, file, printed, answer,
                   exit_status, interrupted>>

\* the closing lines and do_beep
LogoEnd ==
    /\ pc = "logo"
    /\ logo_i = LogoRows
    /\ pc' = "prompt"
    /\ UNCHANGED <<elevated, stop_animation, loader, scan_i, dir_lines, logo_i, ticks,
                   relaunch, probes_run, loc, env, report, file, printed, answer,
                   exit_status, interrupted>>

\* an EOFError handler that falls through to the end of the script
PromptOnEofLeaves == "end"

\* except EOFError: while True: time.sleep(1)
PromptOnEof == "idle"

\* input("Pressione ENTER para sair...")
Prompt ==
    /\ pc = "prompt"
    /\ \/ answer' = "enter" /\ pc' = "end"
       \/ answer' = "eof" /\ pc' = PromptOnEof
    /\ UNCHANGED <<elevated, stop_animation, loader, scan_i, dir_lines, logo_i, ticks,
                   relaunch, probes_run, loc, env, report, file, printed, exit_status,
                   interrupted>>

\* time.sleep(1) of the idle loop; the loop has no exit of its own
IdleTick ==
    /\ pc = "idle"
    /\ ticks' = IF ticks < MaxTicks THEN ticks + 1 ELSE ticks
    /\ UNCHANGED <<elevated, pc, stop_animation, loader, scan_i, dir_lines, logo_i,
                   relaunch, probes_run, loc, env, report, file, printed, answer,
                   exit_status, interrupted>>

----------------------------------------------------------------------------
(* Interrupts and the handlers of the main flow, lines 353-358 *)

\* the positions inside the try block of the main flow
TryBlock ==
    {"scan", "set_stop", "join", "simdir", "get_hostname", "get_current_user",
     "get_os_info", "get_manufacturer_model", "get_cpu_info", "get_ram_gb",
     "get_disk_info", "get_gpu_names", "get_tpm_info", "get_secure_boot_status",
     "get_firmware_type", "checks", "return", "write", "logo", "prompt", "idle"}

\* a KeyboardInterrupt raised inside the try block where no inner handler
\* catches it; the interrupts that a bare except of a probe catches are part
\* of that probe's action
Interrupt ==
    /\ pc \in TryBlock
    /\ pc' = "h_int"
    /\ interrupted' = TRUE
    /\ loc' = NoLocals
    /\ env' = NoEnv
    /\ dir_lines' = 0
    /\ UNCHANGED <<elevated, stop_animation, loader, scan_i, logo_i, ticks,
                   relaunch, probes_run, report, file, printed, answer, exit_status>>

\* except KeyboardInterrupt
HandleInterrupt ==
    /\ pc = "h_int"
    /\ stop_animation' = TRUE
    /\ printed' = [printed EXCEPT !.notice = TRUE]
    /\ pc' = "end"
    /\ UNCHANGED <<elevated, loader, scan_i, dir_lines, logo_i, ticks, relaunch,
                   probes_run, loc, env, report, file, answer, exit_status,
                   interrupted>>

\* except Exception
HandleException ==
    /\ pc = "h_exc"
    /\ stop_animation' = TRUE
    /\ printed' = [printed EXCEPT !.fatal = TRUE]
    /\ pc' = "end"
    /\ UNCHANGED <<elevated, loader, scan_i, dir_lines, logo_i, ticks, relaunch,
                   probes_run, loc, env, report, file, answer, exit_status,
                   interrupted>>

\* the script ends: exit status 0, the daemon thread dies with the process
ProcessExit ==
    /\ pc = "end"
    /\ exit_status' = 0
    /\ loader' = IF loader \in {"test", "body"} THEN "killed" ELSE loader
    /\ pc' = "exited"
    /\ UNCHANGED <<elevated, stop_animation, scan_i, dir_lines, logo_i, ticks,
                   relaunch, probes_run, loc, env, report, file, printed, answer,
                   interrupted>>

----------------------------------------------------------------------------
(* Specifications *)

Next ==
    \/ CheckAdmin \/ Elevate
    \/ LoaderTest \/ LoaderBody
    \/ Spawn \/ ScanStep \/ ScanEnd \/ SetStop \/ Join \/ SimDirLine \/ SimDirEnd
    \/ GetHostname \/ GetCurrentUser \/ GetOsInfo \/ GetManufacturerModel
    \/ GetCpuInfo \/ GetRamGb \/ GetDiskInfo \/ GetGpuNames \/ GetTpmInfo
    \/ GetSecureBootStatus \/ GetFirmwareType
    \/ ChecksFail \/ Evaluate \/ ReturnReport
    \/ WriteFile \/ LogoRow \/ LogoEnd \/ Prompt \/ IdleTick
    \/ Interrupt \/ HandleInterrupt \/ HandleException \/ ProcessExit

Spec == Init /\ [][Next]_vars

\* the loader thread is scheduled fairly
FairSpec == Spec /\ WF_vars(LoaderTest) /\ WF_vars(LoaderBody)

----------------------------------------------------------------------------
(* Properties *)

\* the result of category k in the checks dictionary of build_report
Passes(k) == \E i \in 1..Len(loc.checks) : loc.checks[i].k = k /\ loc.checks[i].ok

Categories == <<"RAM", "CPU", "Disco", "TPM", "Firmware", "SecureBoot", "Arquitetura">>

Position(k) == CHOOSE i \in 1..Len(Categories) : Categories[i] = k

\* C1: when build_report has computed its seven category results, the verdict
\* is "fully compatible" exactly when all seven are true; otherwise the list
\* of non-compatible items holds exactly the categories whose result is
\* false, each once, in the order RAM, CPU, Disk, TPM, Firmware, SecureBoot,
\* Architecture.
C1_VerdictAndFailingList ==
    pc = "return" =>
        LET items == loc.summary.items
        IN  /\ Len(loc.checks) = Len(Categories)
            /\ \A i \in 1..Len(Categories) :
                  \E j \in 1..Len(loc.checks) : loc.checks[j].k = Categories[i]
            /\ loc.summary.fully <=> \A i \in 1..Len(Categories) : Passes(Categories[i])
            /\ ~loc.summary.fully =>
                  /\ \A n \in 1..Len(items) :
                        \E i \in 1..Len(Categories) : Categories[i] = items[n]
                  /\ \A i \in 1..Len(Categories) :
                        (\E n \in 1..Len(items) : items[n] = Categories[i])
                            <=> ~Passes(Categories[i])
                  /\ \A m, n \in 1..Len(items) :
                        m < n => Position(items[m]) < Position(items[n])

\* exactly one category is false and the list is that category
C1_Witness ==
    /\ pc = "return"
    /\ ~loc.summary.fully
    /\ loc.summary.items = <<"TPM">>

IsTpmSentinel(t) ==
    /\ t.status = S_Desconhecido
    /\ t.enabled = S_Desconhecido
    /\ t.version = S_Desconhecido
    /\ t.manufacturer = S_Desconhecido
    /\ ~t.is_tpm20

\* every category whose probed fact is unknown is reported as not compatible
UnknownsFail ==
    /\ loc.ram_gb = None => ~Passes("RAM")
    /\ loc.cpu_cores = None => ~Passes("CPU")
    /\ loc.disk_total = PyStr(S_Desconhecido) => ~Passes("Disco")
    /\ IsTpmSentinel(loc.tpm) => ~Passes("TPM")
    /\ loc.secure_boot = PyStr(S_Indisponivel) => ~Passes("SecureBoot")
    /\ loc.firmware = PyStr(S_Desconhecido) => ~Passes("Firmware")

\* C2: whatever facts are unknown, the evaluation of the checks does not raise
\* (the flow never goes from the checks to the exception handler) and every
\* category of an unknown fact comes out as not compatible.
C2_UnknownNeverRaises ==
    [][pc = "checks" => (pc' # "h_exc" /\ (pc' = "return" => UnknownsFail'))]_vars

\* C3: the RAM category passes exactly when the RAM size is at least
\* 4 * 1024^3 bytes: 4 GiB passes, one byte less fails.
C3_RamThresholdOnBytes ==
    pc = "return" => (Passes("RAM") <=> env.ram_total.gib >= MinRamGb)

\* C4: once a KeyboardInterrupt has been delivered to the main flow, no
\* further probe is started and the report file is not written, and the
\* process ends with the cancellation notice printed.
C4_InterruptStopsTheFlow ==
    /\ [][interrupted => (probes_run' = probes_run /\ file' = file)]_vars
    /\ [](interrupted /\ pc = "exited" => printed.notice)

\* C5: when an exception other than an interrupt reaches the top-level
\* handler, the stop flag is set, the trace is printed and the process ends
\* with a non-zero exit status.
C5_FatalExitsNonZero ==
    (pc = "exited" /\ printed.fatal) => (stop_animation /\ exit_status # 0)

\* C6 as stated: when every external command of a probe timed out or ended
\* with a non-zero status, the probe returns its sentinel: the all-unknown TPM
\* record, "Indisponivel" for Secure Boot, "Desconhecido" for the firmware.
C6_SentinelOnFailure ==
    /\ (loc.tpm # Unset /\ env.tpm_failed = PyBool(TRUE)) => IsTpmSentinel(loc.tpm)
    /\ (loc.secure_boot # Unset /\ env.sb_failed = PyBool(TRUE))
          => loc.secure_boot = PyStr(S_Indisponivel)
    /\ (loc.firmware # Unset /\ env.fw_failed = PyBool(TRUE))
          => loc.firmware = PyStr(S_Desconhecido)

\* C6 amended: when every external command of a probe timed out or ended with
\* a non-zero status, get_tpm_info returns the all-unknown record and
\* get_secure_boot_status returns "Indisponivel"; get_firmware_type returns
\* "Desconhecido" when none of the EFI directories exists and "UEFI" when one
\* does, never "Legacy/BIOS"; none of the three probes raises an exception.
C6_SentinelOrEfiDirs ==
    /\ []((loc.tpm # Unset /\ env.tpm_failed = PyBool(TRUE)) => IsTpmSentinel(loc.tpm))
    /\ []((loc.secure_boot # Unset /\ env.sb_failed = PyBool(TRUE))
             => loc.secure_boot = PyStr(S_Indisponivel))
    /\ []((loc.firmware # Unset /\ env.fw_failed = PyBool(TRUE))
             => loc.firmware =
                   IF env.efi_dirs = PyBool(TRUE) THEN PyStr(S_UEFI)
                   ELSE PyStr(S_Desconhecido))
    /\ [][(pc \in {"get_tpm_info", "get_secure_boot_status", "get_firmware_type"})
             => (pc' # "h_exc")]_vars

\* all the commands of the three probes failed and no EFI directory exists
C6_Witness ==
    /\ pc = "checks"
    /\ env.tpm_failed = PyBool(TRUE)
    /\ env.sb_failed = PyBool(TRUE)
    /\ env.fw_failed = PyBool(TRUE)
    /\ env.efi_dirs = PyBool(FALSE)
    /\ loc.firmware = PyStr(S_Desconhecido)

\* the Get-Tpm payload was parsed into the dictionary
TpmParsed == loc.tpm.raw.t = "json" /\ ~IsTpmSentinel(loc.tpm)

UpstreamEnabledOrReady ==
    /\ TpmParsed
    /\ \/ loc.tpm.raw.j.TpmEnabled = PyBool(TRUE)
       \/ loc.tpm.raw.j.TpmReady = PyBool(TRUE)

\* C7: the TPM category passes exactly when is_tpm20 is true and TpmEnabled or
\* TpmReady was reported true; a TPM whose query failed or whose payload was
\* not parsed fails.
C7_TpmCategory ==
    pc = "return" =>
        /\ Passes("TPM") <=> (loc.tpm.is_tpm20 /\ UpstreamEnabledOrReady)
        /\ env.tpm_failed = PyBool(TRUE) => ~Passes("TPM")
        /\ ~TpmParsed => ~Passes("TPM")

\* version 2.0 with TpmEnabled false and TpmReady true passes
C7_Witness ==
    /\ pc = "return"
    /\ TpmParsed
    /\ loc.tpm.is_tpm20
    /\ loc.tpm.raw.j.TpmEnabled = PyBool(FALSE)
    /\ loc.tpm.raw.j.TpmReady = PyBool(TRUE)
    /\ Passes("TPM")

\* C8: an instance without administrative privileges, or one whose privilege
\* check came out false, never starts the loader thread, runs no probe and
\* writes no file; when it has exited it has called for the elevated
\* re-launch.
C8_NonElevatedDoesNothing ==
    /\ (~elevated \/ relaunch \/ pc = "elevate")
          => (loader = "none" /\ probes_run = 0 /\ file = Unset /\ report = Unset)
    /\ (~elevated /\ pc = "exited") => relaunch

C8_Witness == ~elevated /\ pc = "exited" /\ relaunch /\ exit_status = 0

\* C9: the stop flag is false until the loader is started, is never reset
\* once true, the loader starts no further iteration once the flag is set and
\* eventually ends, and the join never blocks the main flow.
C9_StopFlag ==
    /\ [](loader = "none" => ~stop_animation)
    /\ [][stop_animation => stop_animation']_vars
    /\ [][(stop_animation /\ loader = "test") => loader' # "body"]_vars
    /\ [](pc = "join" => ENABLED Join)
    /\ (stop_animation ~> loader \in {"done", "killed"})

\* the main flow has written the report while the loader is still in its
\* last iteration
C9_Witness == pc = "logo" /\ file # Unset /\ stop_animation /\ loader = "body"

\* C10: after end-of-input at the final prompt the process stays in the idle
\* loop, with the report file written, and leaves it only by an interrupt
\* that the top-level handler handles (notice printed, stop flag set); after
\* an acknowledged prompt the run ends normally.
C10_EofIdles ==
    /\ [](answer = "eof" =>
            /\ pc \in {"idle", "h_int", "end", "exited"}
            /\ file # Unset
            /\ pc \in {"h_int", "end", "exited"} => interrupted
            /\ pc \in {"end", "exited"} => (printed.notice /\ stop_animation))
    /\ [][pc = "idle" => pc' \in {"idle", "h_int"}]_vars
    /\ [](answer = "enter" =>
            /\ pc \in {"end", "exited"}
            /\ ~printed.notice /\ ~printed.fatal
            /\ pc = "exited" => exit_status = 0)

C10_Witness == answer = "eof" /\ pc = "exited" /\ printed.notice /\ ticks > 0

=============================================================================
